---------------------------- MODULE Spec2Model ----------------------------
(***************************************************************************)
(* Model of the 9x9 Sudoku solver of sudoku.py (class Solver) and of the   *)
(* terminal interface of main.py (classes Cell, Box, SudokuApp).  The      *)
(* solver states the puzzle as a 0/1 feasibility problem over 729 binary   *)
(* variables Cell_(row,_col,_value) and hands it to the CBC backend        *)
(* through PuLP.                                                           *)
(***************************************************************************)
EXTENDS Integers, Sequences, FiniteSets, TLC

(***************************************************************************)
(* Bounds of the model.                                                    *)
(***************************************************************************)
\* Number of feasible points of a problem among which the backend's answer
\* is drawn (the backend may return any feasible point).
MaxSols == 2

\* the number of keys pressed in a run of the editing and arrow keys
MaxKeys == 2

\* the number of times 's' is pressed in a run
MaxSolves == 2

\* The backend's search is run for at most 2^SearchLog steps.
SearchLog == 12

(***************************************************************************)
(* Generic helpers.                                                        *)
(***************************************************************************)
Range(s) == {s[i] : i \in DOMAIN s}

(***************************************************************************)
(* Fixtures of the repository.                                             *)
(***************************************************************************)
hard_puzzle ==
  << <<0,0,5>>, <<1,0,6>>, <<3,0,8>>, <<4,0,4>>, <<5,0,7>>, <<0,1,3>>,
     <<2,1,9>>, <<6,1,6>>, <<2,2,8>>, <<1,3,1>>, <<4,3,8>>, <<7,3,4>>,
     <<0,4,7>>, <<1,4,9>>, <<3,4,6>>, <<5,4,2>>, <<7,4,1>>, <<8,4,8>>,
     <<1,5,5>>, <<4,5,3>>, <<7,5,9>>, <<6,6,2>>, <<2,7,6>>, <<6,7,8>>,
     <<8,7,7>>, <<3,8,3>>, <<4,8,1>>, <<5,8,6>>, <<7,8,5>> >>

hard_puzzle_soln ==
  << <<0,0,5>>, <<0,1,3>>, <<0,2,4>>, <<0,3,6>>, <<0,4,7>>, <<0,5,8>>,
     <<0,6,9>>, <<0,7,1>>, <<0,8,2>>, <<1,0,6>>, <<1,1,7>>, <<1,2,2>>,
     <<1,3,1>>, <<1,4,9>>, <<1,5,5>>, <<1,6,3>>, <<1,7,4>>, <<1,8,8>>,
     <<2,0,1>>, <<2,1,9>>, <<2,2,8>>, <<2,3,3>>, <<2,4,4>>, <<2,5,2>>,
     <<2,6,5>>, <<2,7,6>>, <<2,8,7>>, <<3,0,8>>, <<3,1,5>>, <<3,2,9>>,
     <<3,3,7>>, <<3,4,6>>, <<3,5,1>>, <<3,6,4>>, <<3,7,2>>, <<3,8,3>>,
     <<4,0,4>>, <<4,1,2>>, <<4,2,6>>, <<4,3,8>>, <<4,4,5>>, <<4,5,3>>,
     <<4,6,7>>, <<4,7,9>>, <<4,8,1>>, <<5,0,7>>, <<5,1,1>>, <<5,2,3>>,
     <<5,3,9>>, <<5,4,2>>, <<5,5,4>>, <<5,6,8>>, <<5,7,5>>, <<5,8,6>>,
     <<6,0,9>>, <<6,1,6>>, <<6,2,1>>, <<6,3,5>>, <<6,4,3>>, <<6,5,7>>,
     <<6,6,2>>, <<6,7,8>>, <<6,8,4>>, <<7,0,2>>, <<7,1,8>>, <<7,2,7>>,
     <<7,3,4>>, <<7,4,1>>, <<7,5,9>>, <<7,6,6>>, <<7,7,3>>, <<7,8,5>>,
     <<8,0,3>>, <<8,1,4>>, <<8,2,5>>, <<8,3,2>>, <<8,4,8>>, <<8,5,6>>,
     <<8,6,1>>, <<8,7,7>>, <<8,8,9>> >>

invalid_puzzle == << <<0,0,1>>, <<0,1,1>> >>

(***************************************************************************)
(* Solver._set_decision_variables: the keys of the dictionary of 729       *)
(* binary variables, in the order of the list comprehension.               *)
(***************************************************************************)
AllCellKeys ==
  [k \in 1..729 |-> << (k - 1) \div 81, ((k - 1) \div 9) % 9, ((k - 1) % 9) + 1 >>]

\* The dictionary self._all_cells, by its key set: a lookup of any other
\* key raises KeyError.
AllCells == Range(AllCellKeys)

(***************************************************************************)
(* Solver._set_fixed_constraints.  A constraint "lpSum(vars) == 1" is the  *)
(* sequence of its variables (each named by its key).                      *)
(***************************************************************************)
\* (a slip: the loops over row and col are nested the other way round)
CellConstraints_ColMajor ==
  [k \in 1..81 |-> [i \in 1..9 |-> << (k - 1) % 9, (k - 1) \div 9, i >>]]

\* every cell can only take on a single value
CellConstraints ==
  [k \in 1..81 |-> [i \in 1..9 |-> << (k - 1) \div 9, (k - 1) % 9, i >>]]

\* (a slip: the sum runs over eight of the nine columns)
RowConstraints_EightColumns ==
  [k \in 1..81 |-> [i \in 1..8 |-> << (k - 1) % 9, i - 1, ((k - 1) \div 9) + 1 >>]]

\* every value (1-9) must be seen exactly once per row
RowConstraints ==
  [k \in 1..81 |-> [i \in 1..9 |-> << (k - 1) % 9, i - 1, ((k - 1) \div 9) + 1 >>]]

\* (a slip: the column family repeats the row family)
ColConstraints_AsRows == RowConstraints

\* every value (1-9) must be seen exactly once per column
ColConstraints ==
  [k \in 1..81 |-> [i \in 1..9 |-> << i - 1, (k - 1) % 9, ((k - 1) \div 9) + 1 >>]]

\* the offsets (0, 3, 6) of the boxes
Offsets == <<0, 3, 6>>

\* (a slip: row_offset is used for the column too)
BoxConstraints_RowOffsetTwice ==
  [k \in 1..81 |->
     [i \in 1..9 |->
        << ((i - 1) \div 3) + Offsets[(((k - 1) \div 3) % 3) + 1],
           ((i - 1) % 3) + Offsets[(((k - 1) \div 3) % 3) + 1],
           ((k - 1) \div 9) + 1 >>]]

\* every value (1-9) must be seen exactly once per box
BoxConstraints ==
  [k \in 1..81 |->
     [i \in 1..9 |->
        << ((i - 1) \div 3) + Offsets[(((k - 1) \div 3) % 3) + 1],
           ((i - 1) % 3) + Offsets[((k - 1) % 3) + 1],
           ((k - 1) \div 9) + 1 >>]]

\* (a slip: the box family is left out)
SetFixedConstraints_NoBoxes ==
  CellConstraints \o RowConstraints \o ColConstraints

SetFixedConstraints ==
  CellConstraints \o RowConstraints \o ColConstraints \o BoxConstraints

(***************************************************************************)
(* Solver._set_constraint_starting_cells, as run by Solver.__init__ on the *)
(* problem that holds the fixed constraints.  The lookup                   *)
(* self._all_cells[(row, col, val)] raises KeyError for a key outside the  *)
(* dictionary; it is only made when val > 0.                               *)
(***************************************************************************)
\* (a slip: the test is off by one)
IsKnown_OffByOne(cell) == cell[3] > 1

\* (a slip: the test lets the value 0 through)
IsKnown_ZeroToo(cell) == cell[3] >= 0

IsKnown(cell) == cell[3] > 0  \* a 0 is an empty cell

RaisesKeyError(starting_cells) ==
  \E i \in DOMAIN starting_cells :
     IsKnown(starting_cells[i]) /\ starting_cells[i] \notin AllCells

\* (a slip: the loop skips the first starting cell)
SetConstraintStartingCells_SkipsFirst(constraints, starting_cells) ==
  LET known == SelectSeq(starting_cells, IsKnown)
  IN  constraints \o [i \in 1..(Len(known) - 1) |-> << known[i + 1] >>]

\* (a slip: row and col are swapped in the key)
SetConstraintStartingCells_Swapped(constraints, starting_cells) ==
  LET known == SelectSeq(starting_cells, IsKnown)
  IN  constraints \o [i \in DOMAIN known |->
                        << << known[i][2], known[i][1], known[i][3] >> >>]

SetConstraintStartingCells(constraints, starting_cells) ==
  LET known == SelectSeq(starting_cells, IsKnown)
  IN  constraints \o [i \in DOMAIN known |-> << known[i] >>]

(***************************************************************************)
(* The CBC backend behind prob.solve: the feasible points of the problem.  *)
(* A point is the set of variables with value 1; it is feasible when every *)
(* constraint has exactly one of its variables in it.  Solve               *)
(* searches the constraints for up to MaxSols feasible points.             *)
(***************************************************************************)
\* A node of the search: point, the variables set to 1 so far; avail, the
\* variables that may still be set to 1; open, the constraints with no
\* variable at 1 yet; opts, the variables still to be tried for the
\* constraint the node branches on (an open constraint with the fewest
\* available variables).
Node(cons, G, point, avail, open) ==
  LET cnt == [i \in open |-> Cardinality(G[i] \cap avail)]
      m   == CHOOSE n \in {cnt[i] : i \in open} : \A i \in open : cnt[i] >= n
      g   == CHOOSE i \in open : cnt[i] = m
      IsAvail(v) == v \in avail
  IN  [point |-> point, avail |-> avail, open |-> open,
       opts |-> IF open = {} THEN <<>> ELSE SelectSeq(cons[g], IsAvail)]

\* One step of the depth-first search.  st.stack: the nodes from the root
\* to the current one (the current one first); st.found: the feasible
\* points found.
SearchDone(st) == st.stack = <<>> \/ Cardinality(st.found) >= MaxSols

SearchStep(cons, G, st) ==
  IF SearchDone(st) THEN st
  ELSE LET top == Head(st.stack)
       IN  IF top.open = {}
           THEN [stack |-> Tail(st.stack), found |-> st.found \cup {top.point}]
           ELSE IF top.opts = <<>>
           THEN [stack |-> Tail(st.stack), found |-> st.found]
           ELSE LET c     == Head(top.opts)
                    hit   == {i \in DOMAIN G : c \in G[i]}
                    peers == UNION {G[i] : i \in hit}
                    child == Node(cons, G, top.point \cup {c}, top.avail \ peers,
                                  top.open \ hit)
                IN  [stack |-> << child, [top EXCEPT !.opts = Tail(top.opts)] >>
                                 \o Tail(st.stack),
                     found |-> st.found]

RECURSIVE SearchRun(_, _, _, _)
\* 2^k steps of the search
SearchRun(cons, G, st, k) ==
  IF SearchDone(st) THEN st
  ELSE IF k = 0 THEN SearchStep(cons, G, st)
  ELSE SearchRun(cons, G, SearchRun(cons, G, st, k - 1), k - 1)

\* The variables that the single-variable constraints fix at 1.
FixedAtOne(cons) ==
  {cons[i][1] : i \in {j \in DOMAIN cons : Len(cons[j]) = 1}}

\* The result of the backend's search: the feasible points found, and
\* whether the search ended.
Solve(cons) ==
  LET G     == [i \in DOMAIN cons |-> Range(cons[i])]
      fixed == FixedAtOne(cons)
      hit   == {i \in DOMAIN G : G[i] \cap fixed # {}}
      root  == Node(cons, G, fixed, (UNION Range(G)) \ UNION {G[i] : i \in hit},
                    DOMAIN G \ hit)
  IN  IF \E i \in hit : Cardinality(G[i] \cap fixed) > 1
      THEN [stack |-> <<>>, found |-> {}]  \* one constraint, two variables fixed at 1
      ELSE SearchRun(cons, G, [stack |-> << root >>, found |-> {}], SearchLog)

(***************************************************************************)
(* State of one Solver object and of its caller.                           *)
(***************************************************************************)
VARIABLES
  starting_cells,  \* the argument of Solver(...)
  pc,              \* "new": not yet constructed; "ready": constructed;
                   \* "failed": the constructor raised
  constraints,     \* self.prob.constraints, in insertion order
  status,          \* LpStatus[self.prob.status]
  assigned,        \* TRUE when the backend has assigned the variables' values
                   \* (varValue is None for every variable before that)
  ones,            \* the variables v with value(v) == 1
  raised,          \* the exception the constructor raised, or "none"
  parsed,          \* TRUE when parse_solution has returned since the last solve
  solution         \* the list parse_solution returned

vars == << starting_cells, pc, raised, constraints, status, assigned, ones, parsed, solution >>

(***************************************************************************)
(* What the backend leaves in the variables when the problem is            *)
(* infeasible: PuLP still reads the backend's solution file and assigns    *)
(* every variable a number (0 unless the file says otherwise); the file    *)
(* holds a point that is not feasible.  Nothing in sudoku.py decides which *)
(* one, so it is a choice: no variable at 1, or the variables that the     *)
(* single-variable constraints fix at 1.                                   *)
(***************************************************************************)
InfeasibleValues(cons) == {{}, FixedAtOne(cons)}

(***************************************************************************)
(* Names of the variables: LpVariable.dicts("Cell", keys) names the        *)
(* variable of key (r, c, v) "Cell_(r,_c,_v)" (the str() of the tuple      *)
(* after "Cell_", blanks replaced by "_").  A name is a sequence of        *)
(* one-character strings.                                                  *)
(***************************************************************************)
Digits == << "0", "1", "2", "3", "4", "5", "6", "7", "8", "9" >>

RECURSIVE Str(_)
\* str(n) for a natural number n
Str(n) == IF n < 10 THEN << Digits[n + 1] >>
          ELSE Str(n \div 10) \o << Digits[(n % 10) + 1] >>

VarName(key) ==
  << "C", "e", "l", "l", "_", "(" >> \o Str(key[1]) \o << ",", "_" >>
     \o Str(key[2]) \o << ",", "_" >> \o Str(key[3]) \o << ")" >>

IsDigit(ch) == \E d \in DOMAIN Digits : Digits[d] = ch

RECURSIVE FindAll(_, _)
\* re.findall(r"\d+", name): the maximal runs of digits, left to right;
\* run is the run being read.
FindAll(name, run) ==
  IF name = <<>> THEN (IF run = <<>> THEN <<>> ELSE << run >>)
  ELSE IF IsDigit(Head(name)) THEN FindAll(Tail(name), Append(run, Head(name)))
  ELSE (IF run = <<>> THEN <<>> ELSE << run >>) \o FindAll(Tail(name), <<>>)

RECURSIVE ToInt(_)
\* int(s) for a string of digits
ToInt(s) ==
  IF Len(s) = 1 THEN (CHOOSE d \in DOMAIN Digits : Digits[d] = s[1]) - 1
  ELSE 10 * ToInt(SubSeq(s, 1, Len(s) - 1)) + ToInt(<< s[Len(s)] >>)

(***************************************************************************)
(* LpProblem.variablesDict: the variables of the constraints, keyed by     *)
(* name, in the order in which the constraints first mention them.         *)
(***************************************************************************)
RECURSIVE VariablesDict(_, _, _)
\* The dictionary's keys after the constraints lo..hi
VariablesDict(cons, lo, hi) ==
  IF lo > hi THEN <<>>
  ELSE IF lo = hi THEN cons[lo]
  ELSE LET mid   == (lo + hi) \div 2
           first == VariablesDict(cons, lo, mid)
           known == Range(first)
           IsNew(v) == v \notin known
       IN  first \o SelectSeq(VariablesDict(cons, mid + 1, hi), IsNew)

(***************************************************************************)
(* Solver.parse_solution                                                   *)
(***************************************************************************)
\* (a slip: row and col are appended the other way round)
ParseSolution_ColRow(cons, isAssigned, atOne) ==
  LET IsOne(v) == isAssigned /\ v \in atOne
      hits     == SelectSeq(VariablesDict(cons, 1, Len(cons)), IsOne)
      Triple(k) == LET f == FindAll(k, <<>>)
                   IN  << ToInt(f[2]), ToInt(f[1]), ToInt(f[3]) >>
  IN  [i \in DOMAIN hits |-> Triple(VarName(hits[i]))]

ParseSolution(cons, isAssigned, atOne) ==
  LET IsOne(v) == isAssigned /\ v \in atOne   \* value(v) == 1
      hits     == SelectSeq(VariablesDict(cons, 1, Len(cons)), IsOne)
      Triple(k) == LET f == FindAll(k, <<>>)
                   IN  << ToInt(f[1]), ToInt(f[2]), ToInt(f[3]) >>
  IN  [i \in DOMAIN hits |-> Triple(VarName(hits[i]))]

(***************************************************************************)
(* Inputs.  The lists given to Solver(...) are the fixtures, the complete  *)
(* grid hard_puzzle_soln with the four cells of EditCells emptied or       *)
(* rewritten, a list that names a cell twice, and the short lists over     *)
(* SparseCells (which hold conflicts, zeros, two values for one cell, and  *)
(* coordinates and values out of range).                                   *)
(***************************************************************************)
EditCells == { <<1,7>>, <<1,8>>, <<6,7>>, <<6,8>> }
EditValues == {0, 4, 8}

Edit(grid, f) ==
  [i \in DOMAIN grid |->
     IF << grid[i][1], grid[i][2] >> \in EditCells
     THEN << grid[i][1], grid[i][2], f[<< grid[i][1], grid[i][2] >>] >>
     ELSE grid[i]]

DenseInputs == {Edit(hard_puzzle_soln, f) : f \in [EditCells -> EditValues]}

SparseCells ==
  { <<0,0,1>>, <<0,1,1>>, <<5,0,1>>, <<1,1,1>>, <<0,0,2>>, <<0,0,0>>,
    <<9,9,0>>, <<0,0,-1>>, <<0,9,1>>, <<-1,0,1>>, <<0,0,10>> }

SparseInputs ==
  {<<>>} \cup {<< a >> : a \in SparseCells}
         \cup {<< <<0,0,1>>, a >> : a \in SparseCells}
         \cup {<< a, <<0,0,1>> >> : a \in SparseCells}

\* a complete grid whose first entry is listed a second time (82 entries)
RepeatedEntryInput == hard_puzzle_soln \o << hard_puzzle_soln[1] >>

Inputs ==
  {hard_puzzle, hard_puzzle_soln, invalid_puzzle, RepeatedEntryInput}
     \cup DenseInputs \cup SparseInputs

(***************************************************************************)
(* The terminal interface of main.py.  The screen holds 81 Cell widgets,   *)
(* numbered 1..81 in the order in which SudokuApp.compose and Box.compose  *)
(* yield them (box 0 first, nine cells a box); self.query(Cell) walks them *)
(* in this order.                                                          *)
(***************************************************************************)
VARIABLES
  output,    \* output[w]: the reactive attribute output of Cell w
  focused,   \* self.screen.focused, a Cell
  logger,    \* the message last given to display_message ("" before the
             \* first); the logger shows it after a time of day and ": "
  presses,   \* the number of keys pressed so far
  key        \* the key pressed last ("" before the first)

appVars == << output, focused, logger, presses, key >>

allVars == << vars, appVars >>

\* Cell.output is the string 'x' or an int
X == << "x" >>
Num(n) == << "int", n >>

Widgets == 1..81

\* (a slip: the column is taken from the row of boxes)
CellId_ColFromBoxRow(box_num, i) ==
  << "_" >> \o Str((box_num \div 3) * 3 + (i \div 3))
            \o << "_" >> \o Str((box_num \div 3) * 3 + (i % 3))

\* Box.compose: the id '_row_col' of cell i of box box_num
CellId(box_num, i) ==
  << "_" >> \o Str((box_num \div 3) * 3 + (i \div 3))
            \o << "_" >> \o Str((box_num % 3) * 3 + (i % 3))

\* the ids of the widgets, in the order of composition
CellIds == [w \in Widgets |-> CellId((w - 1) \div 9, (w - 1) % 9)]

\* SudokuApp.get_cell_row_col: int(cell.id[1]), int(cell.id[3])
GetCellRowCol(id) == << ToInt(<< id[2] >>), ToInt(<< id[4] >>) >>

\* the id in the selector f'#_{row}_{col}'
Selector(row, col) == << "_" >> \o Str(row) \o << "_" >> \o Str(col)

\* self.query_one('#' + id): the first widget with the id; 0 stands for the
\* exception NoMatches
QueryOne(id) ==
  IF \E w \in Widgets : CellIds[w] = id
  THEN CHOOSE w \in Widgets : CellIds[w] = id /\ \A u \in 1..(w - 1) : CellIds[u] # id
  ELSE 0

\* (a slip: incrementing does not stop at 9)
OnKey_NoWrapAtNine(o, k) ==
  IF IsDigit(k) THEN (IF ToInt(<< k >>) > 0 THEN Num(ToInt(<< k >>)) ELSE o)
  ELSE IF k = "k" THEN (IF o = X THEN Num(1) ELSE Num(o[2] + 1))
  ELSE IF k = "j" THEN (IF o = X THEN Num(9) ELSE IF o[2] > 1 THEN Num(o[2] - 1) ELSE X)
  ELSE o

\* Cell.on_key: the output after key k, from the output o
OnKey(o, k) ==
  IF IsDigit(k) THEN (IF ToInt(<< k >>) > 0 THEN Num(ToInt(<< k >>)) ELSE o)
  ELSE IF k = "k" THEN (IF o = X THEN Num(1) ELSE IF o[2] < 9 THEN Num(o[2] + 1) ELSE X)
  ELSE IF k = "j" THEN (IF o = X THEN Num(9) ELSE IF o[2] > 1 THEN Num(o[2] - 1) ELSE X)
  ELSE o

\* the keys Cell.on_key acts on
OnKeyKeys == Range(Digits) \cup {"k", "j"}

\* self.screen.set_focus(self.query_one(...)); NoMatches ends the handler
\* before the focus is set
SetFocus(from, row, col) ==
  LET to == QueryOne(Selector(row, col)) IN IF to = 0 THEN from ELSE to

\* (a slip: the last column does not wrap to the next row)
FocusNextDigit_NoWrap(w) ==
  LET rc == GetCellRowCol(CellIds[w])
  IN  IF rc[2] < 8 THEN SetFocus(w, rc[1], rc[2] + 1) ELSE w

\* SudokuApp.action_focus_next_digit: the focus after 'right', from Cell w
FocusNextDigit(w) ==
  LET rc == GetCellRowCol(CellIds[w])
  IN  IF rc[2] < 8 THEN SetFocus(w, rc[1], rc[2] + 1)
      ELSE IF rc[1] < 8 THEN SetFocus(w, rc[1] + 1, 0)
      ELSE w

\* (a slip: the first column wraps to the first column of the row above)
FocusPrevDigit_WrapsToColumnZero(w) ==
  LET rc == GetCellRowCol(CellIds[w])
  IN  IF rc[2] > 0 THEN SetFocus(w, rc[1], rc[2] - 1)
      ELSE IF rc[1] > 0 THEN SetFocus(w, rc[1] - 1, 0)
      ELSE w

\* SudokuApp.action_focus_prev_digit: the focus after 'left'
FocusPrevDigit(w) ==
  LET rc == GetCellRowCol(CellIds[w])
  IN  IF rc[2] > 0 THEN SetFocus(w, rc[1], rc[2] - 1)
      ELSE IF rc[1] > 0 THEN SetFocus(w, rc[1] - 1, 8)
      ELSE w

\* SudokuApp.action_focus_up_digit: the focus after 'up'
FocusUpDigit(w) ==
  LET rc == GetCellRowCol(CellIds[w])
  IN  IF rc[1] > 0 THEN SetFocus(w, rc[1] - 1, rc[2]) ELSE w

\* SudokuApp.action_focus_down_digit: the focus after 'down'
FocusDownDigit(w) ==
  LET rc == GetCellRowCol(CellIds[w])
  IN  IF rc[1] < 8 THEN SetFocus(w, rc[1] + 1, rc[2]) ELSE w

\* (a slip: every cell is read as empty)
ParseGrid_AllEmpty(out) ==
  [w \in Widgets |->
     LET rc == GetCellRowCol(CellIds[w]) IN << rc[1], rc[2], 0 >>]

\* SudokuApp.parse_grid
ParseGrid(out) ==
  [w \in Widgets |->
     LET rc == GetCellRowCol(CellIds[w])
     IN  << rc[1], rc[2], IF out[w] = X THEN 0 ELSE out[w][2] >>]

\* Solver.solve_puzzle as SudokuApp.get_solution calls it, once on a new
\* Solver: what it returns and what it leaves in the variables
SolveOutcomes(cons) ==
  LET end == Solve(cons)
  IN  IF end.found # {}
      THEN {[status |-> "Optimal", assigned |-> TRUE, ones |-> p] : p \in end.found}
      ELSE IF end.stack = <<>>
      THEN {[status |-> "Infeasible", assigned |-> TRUE, ones |-> p] :
              p \in InfeasibleValues(cons)}
      ELSE {[status |-> "Undefined", assigned |-> FALSE, ones |-> {}]}

\* what get_solution returns: None, or the list of parse_solution
None == [none |-> TRUE, cells |-> <<>>]
List(cells) == [none |-> FALSE, cells |-> cells]

\* (a slip: the solution is parsed whatever the status)
GetSolution_AnyStatus(puzzle) ==
  IF RaisesKeyError(puzzle) THEN {}
  ELSE LET cons == SetConstraintStartingCells(SetFixedConstraints, puzzle)
       IN  {List(ParseSolution(cons, o.assigned, o.ones)) : o \in SolveOutcomes(cons)}

\* SudokuApp.get_solution: the values it can return for a puzzle (none when
\* Solver(puzzle) raises)
GetSolution(puzzle) ==
  IF RaisesKeyError(puzzle) THEN {}
  ELSE LET cons == SetConstraintStartingCells(SetFixedConstraints, puzzle)
       IN  {IF o.status = "Optimal"
            THEN List(ParseSolution(cons, o.assigned, o.ones))
            ELSE None : o \in SolveOutcomes(cons)}

\* (a slip: row and col are swapped in the selector)
DisplaySolution_ColRow(out, sol) ==
  IF sol.none \/ sol.cells = <<>>
  THEN [output |-> out, message |-> "Solution not found"]
  ELSE LET at == [i \in DOMAIN sol.cells |->
                    QueryOne(Selector(sol.cells[i][2], sol.cells[i][1]))]
           Last(w) == CHOOSE i \in DOMAIN at : at[i] = w /\ \A j \in DOMAIN at : at[j] = w => j <= i
       IN  [output  |-> [w \in Widgets |->
                           IF \E i \in DOMAIN at : at[i] = w
                           THEN Num(sol.cells[Last(w)][3]) ELSE out[w]],
            message |-> "Solution found"]

\* SudokuApp.display_solution: the outputs and the message it leaves
DisplaySolution(out, sol) ==
  IF sol.none \/ sol.cells = <<>>       \* not solution
  THEN [output |-> out, message |-> "Solution not found"]
  ELSE LET at == [i \in DOMAIN sol.cells |->
                    QueryOne(Selector(sol.cells[i][1], sol.cells[i][2]))]
           Last(w) == CHOOSE i \in DOMAIN at : at[i] = w /\ \A j \in DOMAIN at : at[j] = w => j <= i
       IN  [output  |-> [w \in Widgets |->
                           IF \E i \in DOMAIN at : at[i] = w
                           THEN Num(sol.cells[Last(w)][3]) ELSE out[w]],
            message |-> "Solution found"]

\* the state of the interface when the app starts
AppStart ==
  /\ output = [w \in Widgets |-> X]
  /\ focused = 1
  /\ logger = ""
  /\ presses = 0
  /\ key = ""

(***************************************************************************)
(* The state machine: a caller constructs one Solver, then calls           *)
(* solve_puzzle and parse_solution in any order.  A caller solves a Solver *)
(* once, as the main block of sudoku.py and SudokuApp.get_solution do.     *)
(* parsed and solution record what parse_solution returned since the last  *)
(* call of solve_puzzle.                                                   *)
(***************************************************************************)
Init ==
  /\ starting_cells \in Inputs
  /\ pc = "new"
  /\ raised = "none"
  /\ constraints = <<>>
  /\ status = "Not Solved"
  /\ assigned = FALSE
  /\ ones = {}
  /\ parsed = FALSE
  /\ solution = <<>>
  /\ AppStart

\* Solver.__init__
Construct ==
  /\ pc = "new"
  /\ IF RaisesKeyError(starting_cells)
     THEN /\ pc' = "failed"
          /\ raised' = "KeyError"
          /\ UNCHANGED constraints
     ELSE /\ pc' = "ready"
          /\ constraints' = SetConstraintStartingCells(SetFixedConstraints, starting_cells)
          /\ UNCHANGED raised
  /\ UNCHANGED << starting_cells, status, assigned, ones, parsed, solution >>
  /\ UNCHANGED appVars

\* Solver.solve_puzzle
SolvePuzzle ==
  /\ pc = "ready"
  /\ status = "Not Solved"
  /\ LET end == Solve(constraints)
     IN  IF end.found # {}
         THEN /\ status' = "Optimal"
              /\ ones' \in end.found
              /\ assigned' = TRUE
         ELSE IF end.stack = <<>>
         THEN /\ status' = "Infeasible"
              /\ ones' \in InfeasibleValues(constraints)
              /\ assigned' = TRUE
         ELSE /\ status' = "Undefined"    \* the search did not end
              /\ UNCHANGED << ones, assigned >>
  /\ parsed' = FALSE
  /\ solution' = <<>>
  /\ UNCHANGED << starting_cells, pc, raised, constraints >>
  /\ UNCHANGED appVars

\* Solver.parse_solution
CallParseSolution ==
  /\ pc = "ready"
  /\ parsed' = TRUE
  /\ solution' = ParseSolution(constraints, assigned, ones)
  /\ UNCHANGED << starting_cells, pc, raised, constraints, status, assigned, ones >>
  /\ UNCHANGED appVars

Next == Construct \/ SolvePuzzle \/ CallParseSolution

Spec == Init /\ [][Next]_vars

(***************************************************************************)
(* The keys of the interface.  Each action is one key press and the whole  *)
(* handler it runs; the Solver that 's' builds lives inside the handler,   *)
(* so the variables of the Solver above stay as they are.  At most MaxKeys *)
(* keys are pressed in a run of the editing keys and at most MaxSolves in  *)
(* a run of 's'.                                                           *)
(***************************************************************************)
Pressed(k, limit) ==
  /\ presses < limit
  /\ presses' = presses + 1
  /\ key' = k
  /\ UNCHANGED vars

\* a digit, 'k' or 'j', handled by Cell.on_key of the focused Cell
PressCellKey ==
  \E k \in OnKeyKeys :
     /\ Pressed(k, MaxKeys)
     /\ output' = [output EXCEPT ![focused] = OnKey(@, k)]
     /\ UNCHANGED << focused, logger >>

\* 'x', bound to Cell.action_clear of the focused Cell
PressClear ==
  /\ Pressed("x", MaxKeys)
  /\ output' = [output EXCEPT ![focused] = X]
  /\ UNCHANGED << focused, logger >>

\* 'X': SudokuApp.action_clear_all
PressClearAll ==
  /\ Pressed("X", MaxKeys)
  /\ output' = [w \in Widgets |-> X]
  /\ logger' = "Cleared grid"
  /\ UNCHANGED focused

\* 'right': SudokuApp.action_focus_next_digit
PressRight ==
  /\ Pressed("right", MaxKeys)
  /\ focused' = FocusNextDigit(focused)
  /\ UNCHANGED << output, logger >>

\* 'left': SudokuApp.action_focus_prev_digit
PressLeft ==
  /\ Pressed("left", MaxKeys)
  /\ focused' = FocusPrevDigit(focused)
  /\ UNCHANGED << output, logger >>

\* 'up': SudokuApp.action_focus_up_digit
PressUp ==
  /\ Pressed("up", MaxKeys)
  /\ focused' = FocusUpDigit(focused)
  /\ UNCHANGED << output, logger >>

\* 'down': SudokuApp.action_focus_down_digit
PressDown ==
  /\ Pressed("down", MaxKeys)
  /\ focused' = FocusDownDigit(focused)
  /\ UNCHANGED << output, logger >>

\* 's': SudokuApp.action_solve
PressSolve ==
  /\ Pressed("s", MaxSolves)
  /\ \E sol \in GetSolution(ParseGrid(output)) :
        LET shown == DisplaySolution(output, sol)
        IN  /\ output' = shown.output
            /\ logger' = shown.message
  /\ UNCHANGED focused

\* no Solver outside the handlers of the interface
NoSolver ==
  /\ starting_cells = <<>>
  /\ pc = "new"
  /\ raised = "none"
  /\ constraints = <<>>
  /\ status = "Not Solved"
  /\ assigned = FALSE
  /\ ones = {}
  /\ parsed = FALSE
  /\ solution = <<>>

\* the outputs that show a list of fixed cells (no entry, or 0: 'x')
Showing(cells) ==
  [w \in Widgets |->
     LET rc == GetCellRowCol(CellIds[w])
         vs == {cells[i][3] : i \in {j \in DOMAIN cells : cells[j][1] = rc[1] /\ cells[j][2] = rc[2]}} \ {0}
     IN  IF vs = {} THEN X ELSE Num(CHOOSE v \in vs : TRUE)]

\* Grids and focused Cells that key presses lead to: the empty grid of the
\* start and a full grid; the corners, the middles of the edges and the
\* centre.
KeyGrids == {Showing(<<>>), Showing(hard_puzzle_soln)}
FocusStarts == {QueryOne(Selector(r, c)) : r \in {0, 4, 8}, c \in {0, 4, 8}}

InitKeys ==
  /\ NoSolver
  /\ output \in KeyGrids
  /\ focused \in FocusStarts
  /\ logger = ""
  /\ presses = 0
  /\ key = ""

NextKeys ==
  \/ PressCellKey
  \/ PressClear
  \/ PressClearAll
  \/ PressRight
  \/ PressLeft
  \/ PressUp
  \/ PressDown

\* editing the grid and moving the focus
SpecKeys == InitKeys /\ [][NextKeys]_allVars

\* Grids that key presses lead to, on which 's' is pressed: the empty grid,
\* the grid of ones, the puzzle of the tests, and the full grid with the
\* cells of EditCells emptied or rewritten.
SolveGrids ==
  {Showing(<<>>), Showing([k \in 1..81 |-> << (k - 1) \div 9, (k - 1) % 9, 1 >>]),
   Showing(hard_puzzle)} \cup {Showing(g) : g \in DenseInputs}

InitSolve ==
  /\ NoSolver
  /\ output \in SolveGrids
  /\ focused = 1
  /\ logger = ""
  /\ presses = 0
  /\ key = ""

NextSolve == PressSolve

\* pressing 's', again and again
SpecSolve == InitSolve /\ [][NextSolve]_allVars

(***************************************************************************)
(* The rules of Sudoku, stated on grids (independently of the constraints  *)
(* the Solver builds).  A grid is given by a list of (row, col, value)     *)
(* triples.                                                                *)
(***************************************************************************)
Coords == 0..8
Box(r, c) == << r \div 3, c \div 3 >>

InRange(t) == t[1] \in Coords /\ t[2] \in Coords /\ t[3] \in 0..9

\* every triple of the list has row, col in [0,8] and value in [0,9]
WellFormed(cells) == \A i \in DOMAIN cells : InRange(cells[i])

\* the values the list gives to cell (r, c)
ValuesAt(cells, r, c) ==
  {cells[i][3] : i \in {j \in DOMAIN cells : cells[j][1] = r /\ cells[j][2] = c}}

\* the list gives every cell exactly one value in 1..9, and every row,
\* column and box holds each value exactly once
ValidGrid(cells) ==
  /\ \A i \in DOMAIN cells :
        cells[i][1] \in Coords /\ cells[i][2] \in Coords /\ cells[i][3] \in 1..9
  /\ \A r \in Coords, c \in Coords :
        Cardinality({i \in DOMAIN cells : cells[i][1] = r /\ cells[i][2] = c}) = 1
  /\ \A r \in Coords, v \in 1..9 :
        Cardinality({i \in DOMAIN cells : cells[i][1] = r /\ cells[i][3] = v}) = 1
  /\ \A c \in Coords, v \in 1..9 :
        Cardinality({i \in DOMAIN cells : cells[i][2] = c /\ cells[i][3] = v}) = 1
  /\ \A b \in {Box(r, c) : r \in Coords, c \in Coords}, v \in 1..9 :
        Cardinality({i \in DOMAIN cells :
                       Box(cells[i][1], cells[i][2]) = b /\ cells[i][3] = v}) = 1

\* two distinct cells of one row, column or box are given the same value
ConflictPair(cells) ==
  \E i \in DOMAIN cells, j \in DOMAIN cells :
     /\ cells[i][3] > 0 /\ cells[i][3] = cells[j][3]
     /\ << cells[i][1], cells[i][2] >> # << cells[j][1], cells[j][2] >>
     /\ \/ cells[i][1] = cells[j][1]
        \/ cells[i][2] = cells[j][2]
        \/ Box(cells[i][1], cells[i][2]) = Box(cells[j][1], cells[j][2])

RECURSIVE SeqOf(_)
\* a set as a sequence
SeqOf(S) == IF S = {} THEN <<>>
            ELSE LET x == CHOOSE y \in S : TRUE IN << x >> \o SeqOf(S \ {x})

\* The rules as "exactly one of these candidates": one value per cell, and
\* each value once in every row, column and box.
RuleCell == [k \in 1..81 |->
               SeqOf({<< (k - 1) \div 9, (k - 1) % 9, v >> : v \in 1..9})]
RuleRow  == [k \in 1..81 |->
               SeqOf({<< (k - 1) \div 9, c, ((k - 1) % 9) + 1 >> : c \in Coords})]
RuleCol  == [k \in 1..81 |->
               SeqOf({<< r, (k - 1) \div 9, ((k - 1) % 9) + 1 >> : r \in Coords})]
RuleBox  == [k \in 1..81 |->
               SeqOf({<< r, c, ((k - 1) % 9) + 1 >> :
                        r \in {x \in Coords : x \div 3 = (k - 1) \div 27},
                        c \in {x \in Coords : x \div 3 = ((k - 1) \div 9) % 3}})]
Rules == RuleCell \o RuleRow \o RuleCol \o RuleBox

\* The complete grids (as sets of triples, at most MaxSols of them) that
\* obey the rules and hold every nonzero cell of a well-formed list.
Completions(cells) ==
  LET IsGiven(t) == t[3] # 0
      given == SelectSeq(cells, IsGiven)
  IN  Solve(Rules \o [i \in DOMAIN given |-> << given[i] >>]).found

\* the triples of a grid in row-major order
RowMajor(grid) ==
  [k \in 1..81 |-> CHOOSE t \in grid : t[1] = (k - 1) \div 9 /\ t[2] = (k - 1) % 9]

Solved == status # "Not Solved"

\* two entries of the list give one cell different values in 1..9
ConflictingDuplicate(cells) ==
  \E i \in DOMAIN cells, j \in DOMAIN cells :
     /\ cells[i][1] = cells[j][1] /\ cells[i][2] = cells[j][2]
     /\ cells[i][3] \in 1..9 /\ cells[j][3] \in 1..9
     /\ cells[i][3] # cells[j][3]

\* The first 324 constraints of a problem are the rules: 81 per family
\* (cell, row-value, column-value, box-value), each over the nine candidates
\* of its rule, 729 candidates in all; the constraints after them each hold
\* one candidate.
Family(cons, n) == {Range(cons[i]) : i \in (81 * n + 1)..(81 * n + 81)}

StructuralConstraints(cons) ==
  /\ Len(cons) >= 324
  /\ \A i \in 1..324 : Len(cons[i]) = 9 /\ Cardinality(Range(cons[i])) = 9
  /\ Family(cons, 0) = {Range(RuleCell[k]) : k \in 1..81}
  /\ Family(cons, 1) = {Range(RuleRow[k]) : k \in 1..81}
  /\ Family(cons, 2) = {Range(RuleCol[k]) : k \in 1..81}
  /\ Family(cons, 3) = {Range(RuleBox[k]) : k \in 1..81}
  /\ \A n \in 0..3 : Cardinality(Family(cons, n)) = 81
  /\ Cardinality(UNION {Range(cons[i]) : i \in 1..324}) = 729
  /\ \A i \in 325..Len(cons) : Len(cons[i]) = 1

\* the list without its value-0 entries
WithoutZeros(cells) ==
  LET NonZero(t) == t[3] # 0 IN SelectSeq(cells, NonZero)

(***************************************************************************)
(* Claims                                                                  *)
(***************************************************************************)

\* C1: whenever solve_puzzle has returned 'Optimal', the list parse_solution
\* returns gives every cell a value in 1..9, and every row, column and 3x3
\* box holds each value 1..9 exactly once.
C1_SolutionObeysRules ==
  (parsed /\ status = "Optimal") => ValidGrid(solution)

C1_Witness ==
  /\ parsed /\ status = "Optimal"
  /\ starting_cells = << <<0,0,1>> >>
  /\ Len(solution) = 81

\* C2: whenever solve_puzzle has returned 'Optimal', every fixed cell
\* (row, col, v) with v > 0 given at construction is one of the triples
\* parse_solution returns.
C2_FixedCellsKept ==
  (parsed /\ status = "Optimal") =>
     \A i \in DOMAIN starting_cells :
        starting_cells[i][3] > 0 => starting_cells[i] \in Range(solution)

C2_Witness ==
  /\ parsed /\ status = "Optimal"
  /\ starting_cells = hard_puzzle
  /\ \A i \in DOMAIN hard_puzzle : hard_puzzle[i] \in Range(solution)

\* C3: for a well-formed list of fixed cells, solve_puzzle returns 'Optimal'
\* when some complete grid obeys the rules and holds all nonzero fixed
\* cells, and 'Infeasible' when there is none.
C3_OptimalIffCompletable ==
  (Solved /\ WellFormed(starting_cells)) =>
     status = (IF Completions(starting_cells) # {} THEN "Optimal" ELSE "Infeasible")

C3_Witness ==
  /\ status = "Infeasible"
  /\ WellFormed(starting_cells)
  /\ ~ConflictPair(starting_cells)
  /\ Len(starting_cells) = 81

\* C4: when two distinct cells of one row, column or box are fixed to the
\* same nonzero value, solve_puzzle returns 'Infeasible', whatever the other
\* fixed cells are.
C4_ConflictIsInfeasible ==
  (Solved /\ ConflictPair(starting_cells)) => status = "Infeasible"

C4_Witness ==
  /\ status = "Infeasible"
  /\ starting_cells = invalid_puzzle

\* C5: when the fixed cells have exactly one completion, solve_puzzle
\* returns 'Optimal' and parse_solution returns that completion, cell by
\* cell in row-major order; for hard_puzzle it returns hard_puzzle_soln.
C5_UniqueCompletionReturned ==
  (Solved /\ WellFormed(starting_cells)) =>
     LET all == Completions(starting_cells)
     IN  /\ Cardinality(all) = 1 =>
              /\ status = "Optimal"
              /\ parsed => solution = RowMajor(CHOOSE g \in all : TRUE)
         /\ (parsed /\ starting_cells = hard_puzzle) => solution = hard_puzzle_soln

C5_Witness ==
  /\ parsed /\ status = "Optimal"
  /\ starting_cells = hard_puzzle
  /\ solution = hard_puzzle_soln

\* C6: after solve_puzzle has returned 'Optimal', parse_solution returns 81
\* triples, one for every cell, by ascending row and then ascending column,
\* the value of each being the one candidate value at 1 for the cell.
C6_ParseCoversCellsInOrder ==
  (parsed /\ status = "Optimal") =>
     /\ Len(solution) = 81
     /\ \A k \in 1..81 :
           /\ solution[k][1] = (k - 1) \div 9
           /\ solution[k][2] = (k - 1) % 9
           /\ {v \in 1..9 : << solution[k][1], solution[k][2], v >> \in ones}
                 = {solution[k][3]}

C6_Witness ==
  /\ parsed /\ status = "Optimal"
  /\ starting_cells = <<>>
  /\ Len(solution) = 81
  /\ solution[81][1] = 8 /\ solution[81][2] = 8

\* C7: when the input fixes all 81 cells and is a grid that obeys the rules,
\* solve_puzzle returns 'Optimal' and parse_solution returns the same 81
\* triples.
C7_CompleteGridReturned ==
  (Solved /\ Len(starting_cells) = 81 /\ ValidGrid(starting_cells)) =>
     /\ status = "Optimal"
     /\ parsed => (Len(solution) = 81 /\ Range(solution) = Range(starting_cells))

C7_Witness ==
  /\ parsed /\ status = "Optimal"
  /\ Len(starting_cells) = 81 /\ ValidGrid(starting_cells)
  /\ starting_cells # hard_puzzle_soln
  /\ solution = starting_cells

\* C8: a Solver built from the empty list returns 'Optimal', and the
\* solution it yields is a grid that obeys the rules.
C8_EmptyInputSolved ==
  (Solved /\ starting_cells = <<>>) =>
     /\ status = "Optimal"
     /\ parsed => ValidGrid(solution)

C8_Witness ==
  /\ starting_cells = <<>>
  /\ parsed /\ status = "Optimal"
  /\ ValidGrid(solution)

\* C9: constructing the Solver fails for every input list that holds a
\* triple with row or col outside [0,8] or value outside [0,9], so that no
\* such input reaches solve_puzzle.
C9_InvalidInputRejected ==
  (pc # "new" /\ ~WellFormed(starting_cells)) => (pc = "failed" /\ ~Solved)

\* C10: parse_solution on a Solver whose solve_puzzle has not returned
\* 'Optimal' returns the empty list (or fails), and a solve that did not
\* return 'Optimal' leaves the candidates' values unassigned.
C10_NoPartialResults ==
  /\ (parsed /\ status # "Optimal") => solution = <<>>
  /\ (Solved /\ status # "Optimal") => ~assigned

\* C11: when the list holds two entries for one cell with different values
\* in 1..9, the constructor fails or only one value is kept for the cell;
\* the problem never holds a forcing constraint for both values.
C11_DuplicateRejectedOrLastWins ==
  (pc # "new" /\ ConflictingDuplicate(starting_cells)) =>
     \/ pc = "failed"
     \/ \A r \in Coords, c \in Coords :
           Cardinality({v \in 1..9 : << r, c, v >> \in FixedAtOne(constraints)}) <= 1

\* C12: the Solver built from a list is the Solver built from the list
\* without its value-0 entries: construction fails for both or neither, the
\* constraints are the same, solve_puzzle returns the same status, and a
\* point returned for the one is a feasible point of the other.
C12_ZeroMeansOmission ==
  pc # "new" =>
     LET rest == WithoutZeros(starting_cells)
         cons == SetConstraintStartingCells(SetFixedConstraints, rest)
     IN  /\ (pc = "failed") = RaisesKeyError(rest)
         /\ pc = "ready" => constraints = cons
         /\ Solved =>
               LET end == Solve(cons)
               IN  /\ (status = "Optimal") = (end.found # {})
                   /\ (status = "Infeasible") = (end.found = {} /\ end.stack = <<>>)
                   /\ status = "Optimal" => ones \in end.found

C12_Witness ==
  /\ status = "Optimal"
  /\ \E i \in DOMAIN starting_cells : starting_cells[i][3] = 0
  /\ Len(WithoutZeros(starting_cells)) = 1
  /\ Len(constraints) = Len(SetFixedConstraints) + 1

\* C13: after construction the problem holds the 324 structural constraints
\* (81 per family, each over the nine candidates of its rule, 729 candidates
\* in all) and one forcing constraint for each entry of the list whose value
\* is not 0, which are between 0 and 81 forcing constraints.
C13_ConstraintCount ==
  pc = "ready" =>
     /\ StructuralConstraints(constraints)
     /\ Len(constraints) - 324 = Len(WithoutZeros(starting_cells))
     /\ Len(constraints) - 324 \in 0..81

\* C13, amended: after construction the problem holds the 324 structural
\* constraints and, after them, one forcing constraint for each entry of
\* the list whose value is greater than 0, in the order of the list (an
\* entry with a negative value gives none, a cell listed twice gives two);
\* so there are between 0 and len(list) forcing constraints.
C13_ForcingPerPositiveEntry ==
  pc = "ready" =>
     LET Positive(t) == t[3] > 0
         known == SelectSeq(starting_cells, Positive)
     IN  /\ StructuralConstraints(constraints)
         /\ Len(constraints) - 324 = Len(known)
         /\ \A i \in DOMAIN known : constraints[324 + i] = << known[i] >>
         /\ Len(known) \in 0..Len(starting_cells)

C13_Witness ==
  /\ pc = "ready"
  /\ starting_cells = RepeatedEntryInput
  /\ Len(constraints) = 324 + 82

\* the (row, col) of a Cell, read from its id
RowCols == [w \in Widgets |-> GetCellRowCol(CellIds[w])]
RowCol(w) == RowCols[w]

\* the ids of the Cells name every (row, col) of the grid exactly once, and
\* cell i of box b lies in the 3x3 box b (box b / 3 down, b % 3 across)
IdsCoverGrid ==
  /\ \A r \in Coords, c \in Coords :
        Cardinality({w \in Widgets : RowCol(w) = << r, c >>}) = 1
  /\ \A b \in 0..8, i \in 0..8 :
        LET rc == GetCellRowCol(CellId(b, i))
        IN  Box(rc[1], rc[2]) = << b \div 3, b % 3 >>

\* the outputs in the order x, 1, ..., 9, and the place of an output in it
Cycle == << X >> \o [n \in 1..9 |-> Num(n)]
Place(o) == CHOOSE p \in 1..10 : Cycle[p] = o

\* C14: when 's' is pressed on a grid that no complete grid obeying the
\* rules extends (such as the grid of ones), get_solution returns None, the
\* output of every Cell stays as it was, and the message is
\* 'Solution not found'.
C14_FailedSolveLeavesGrid ==
  [][(key' = "s" /\ Completions(ParseGrid(output)) = {}) =>
        /\ GetSolution(ParseGrid(output)) = {None}
        /\ output' = output
        /\ logger' = "Solution not found"]_allVars

C14_Witness ==
  /\ key = "s" /\ presses = 1
  /\ logger = "Solution not found"
  /\ \A w \in Widgets : output[w] = Num(1)

\* C15: on the focused Cell, 'k' steps the output forward and 'j' backward
\* in the cycle x, 1, ..., 9 ('k': x to 1, o to o+1, 9 to x; 'j': x to 9, o
\* to o-1, 1 to x), a digit key 1..9 sets the output to the digit, '0'
\* leaves it, and 'x' sets it to 'x'; every output stays in {x, 1..9}, no
\* other Cell changes, and 'j' undoes 'k' and 'k' undoes 'j'.
C15_CellKeyTransitions ==
  [][(key' \in OnKeyKeys \cup {"x"}) =>
        LET o == output[focused]
            n == output'[focused]
        IN  /\ key' = "k" => n = Cycle[(Place(o) % 10) + 1]
            /\ key' = "j" => n = Cycle[((Place(o) + 8) % 10) + 1]
            /\ \A d \in 1..9 : key' = Digits[d + 1] => n = Num(d)
            /\ key' = "0" => n = o
            /\ key' = "x" => n = X
            /\ \A w \in Widgets :
                  /\ output'[w] \in Range(Cycle)
                  /\ w # focused => output'[w] = output[w]
            /\ OnKey(OnKey(n, "k"), "j") = n
            /\ OnKey(OnKey(n, "j"), "k") = n]_allVars

C15_Witness ==
  /\ key = "k" /\ presses = 2
  /\ output[focused] = X
  /\ \A w \in Widgets : output[w] = X

\* C16: 'right' moves the focus from (r, c) to (r, c+1) when c < 8 and to
\* (r+1, 0) when c = 8 and r < 8; 'left' to (r, c-1) when c > 0 and to
\* (r-1, 8) when c = 0 and r > 0; 'down' to (r+1, c) when r < 8; 'up' to
\* (r-1, c) when r > 0.  From (0,0), right, down, left, left lead to (0,8)
\* and one more right to (1,0).
C16_FocusNavigation ==
  [][LET r  == RowCol(focused)[1]
         c  == RowCol(focused)[2]
         to == RowCol(focused')
         a  == QueryOne(Selector(0, 0))
         b  == FocusPrevDigit(FocusPrevDigit(FocusDownDigit(FocusNextDigit(a))))
     IN  /\ (key' = "right" /\ c < 8) => to = << r, c + 1 >>
         /\ (key' = "right" /\ c = 8 /\ r < 8) => to = << r + 1, 0 >>
         /\ (key' = "left" /\ c > 0) => to = << r, c - 1 >>
         /\ (key' = "left" /\ c = 0 /\ r > 0) => to = << r - 1, 8 >>
         /\ (key' = "down" /\ r < 8) => to = << r + 1, c >>
         /\ (key' = "up" /\ r > 0) => to = << r - 1, c >>
         /\ RowCol(b) = << 0, 8 >>
         /\ RowCol(FocusNextDigit(b)) = << 1, 0 >>]_allVars

C16_Witness ==
  /\ key = "left" /\ presses = 1
  /\ RowCol(focused) = << 3, 8 >>

\* C17: when 's' is pressed on a grid that some complete grid obeying the
\* rules extends, afterwards every one of the 81 Cells shows a value in
\* 1..9, every Cell that held a digit holds the same digit, the grid shown
\* obeys the rules, and the message is 'Solution found'.
C17_SolveFillsGrid ==
  [][(key' = "s" /\ Completions(ParseGrid(output)) # {}) =>
        /\ \A w \in Widgets :
              /\ \E v \in 1..9 : output'[w] = Num(v)
              /\ output[w] # X => output'[w] = output[w]
        /\ ValidGrid(ParseGrid(output'))
        /\ logger' = "Solution found"]_allVars

C17_Witness ==
  /\ key = "s" /\ presses = 1
  /\ logger = "Solution found"
  /\ \A i \in DOMAIN hard_puzzle : hard_puzzle[i] \in Range(ParseGrid(output))
  /\ ValidGrid(ParseGrid(output))

\* C18: the ids of the Cells of the nine Boxes name every (row, col) of
\* 0..8 x 0..8 exactly once, cell i of box b lying in the 3x3 box b; and
\* after any key presses parse_grid returns 81 triples, one for every cell,
\* with rows and columns in [0,8] and the value 0 for 'x' and the digit in
\* 1..9 otherwise.
C18_TuiInputWellFormed ==
  /\ IdsCoverGrid
  /\ LET grid == ParseGrid(output)
     IN  /\ Len(grid) = 81
         /\ WellFormed(grid)
         /\ \A r \in Coords, c \in Coords :
               Cardinality({i \in DOMAIN grid : grid[i][1] = r /\ grid[i][2] = c}) = 1
         /\ \A w \in Widgets :
               /\ << grid[w][1], grid[w][2] >> = RowCol(w)
               /\ output[w] = X => grid[w][3] = 0
               /\ output[w] # X => (grid[w][3] \in 1..9 /\ output[w] = Num(grid[w][3]))

C18_Witness ==
  /\ presses = 2 /\ key = "5"
  /\ ParseGrid(output)[focused][3] = 5
  /\ Cardinality({w \in Widgets : ParseGrid(output)[w][3] = 0}) = 80

\* C19: the focus is always on a Cell of the grid; 'right' at (8,8), 'left'
\* at (0,0), 'up' in row 0 and 'down' in row 8 leave the focus where it is;
\* and where 'right' moves the focus a following 'left' brings it back, and
\* where 'left' moves it a following 'right' brings it back.
C19_FocusStaysInGrid ==
  [][LET rc == RowCol(focused)
     IN  /\ focused' \in Widgets
         /\ RowCol(focused')[1] \in Coords /\ RowCol(focused')[2] \in Coords
         /\ (key' = "right" /\ rc = << 8, 8 >>) => focused' = focused
         /\ (key' = "left" /\ rc = << 0, 0 >>) => focused' = focused
         /\ (key' = "up" /\ rc[1] = 0) => focused' = focused
         /\ (key' = "down" /\ rc[1] = 8) => focused' = focused
         /\ (key' = "right" /\ focused' # focused) => FocusPrevDigit(focused') = focused
         /\ (key' = "left" /\ focused' # focused) => FocusNextDigit(focused') = focused]_allVars

C19_Witness ==
  /\ key = "right" /\ presses = 1
  /\ RowCol(focused) = << 8, 8 >>

\* C20: pressing 's' right after 's' changes nothing: the 81 outputs and the
\* message are the ones the first press left.
C20_SolveTwiceIsSolveOnce ==
  [][(key = "s" /\ key' = "s") => (output' = output /\ logger' = logger)]_allVars

C20_Witness ==
  /\ key = "s" /\ presses = 2
  /\ logger = "Solution found"
  /\ ValidGrid(ParseGrid(output))

=============================================================================
